---- MODULE Spec2Model ----
(***************************************************************************)
(* A model of the histogram chart plugin (hovikgas/byoc-histogram):        *)
(* the chart-model adapters TableChartModel (src/src/TableChartModel.ts)   *)
(* and TableChartModelOld (src/unnamed/part_004), the helpers of           *)
(* src/src/util.ts and the configuration functions of src/src/histogram.ts.*)
(*                                                                         *)
(* JavaScript values are modelled as follows.  Column ids, names, keys and *)
(* data types are strings.  A cell of a row is the tuple <<i, r, p>> naming*)
(* the row-set, row and position the host put it at (the code never looks  *)
(* into a cell, so distinct labels make every misplacement visible); the   *)
(* value `undefined` read from a missing array slot is undefinedCell, and  *)
(* `undefined` returned where an object or array was expected is the       *)
(* record undefined.                                                       *)
(***************************************************************************)
EXTENDS Integers, Sequences, FiniteSets, TLC

VARIABLES
    chartModel,   \* the ChartModel object handed over by the host (mutable)
    hostModel,    \* the same chart model as the host sent it (history)
    tcm,          \* the TableChartModel object (src/src/TableChartModel.ts)
    old,          \* the TableChartModelOld object (src/unnamed/part_004)
    ret,          \* the outcome of the last completed call
    renders       \* the renderChart invocations (src/src/histogram.ts)

vars == <<chartModel, hostModel, tcm, old, ret, renders>>

----------------------------------------------------------------------------
(* Bounds of the model.                                                    *)

MaxColumns == 2     \* columns in the catalog (chartModel.columns)
MaxRowSets == 2     \* query results in chartModel.data
MaxWidth == 2       \* column ids of one row-set, and values of one row
MaxRows == 2        \* rows of one row-set
MaxBound == 2       \* columns bound to one axis dimension
MaxConfigColumns == 3  \* columns offered to getDefaultChartConfig
MaxConfigs == 1     \* groups in chartModel.config.chartConfig
MaxDimensions == 2  \* dimensions of one group

(* The alphabets the inputs are drawn from. *)
ColumnIds == {"c1", "c2"}
ConfigIds == {"c1", "c2", "c3"}
ColumnNames == {"Qty", "Amt"}

\* src/src/histogram.ts:26
NumericTypes == {"DOUBLE", "FLOAT", "INT32", "INT64"}
DataTypes == NumericTypes \cup {"VARCHAR"}

(* The rank of an id in the order Array.prototype.sort() uses by default   *)
(* (strings compared by UTF-16 code units).                                *)
Rank(id) == CASE id = "c1" -> 1 [] id = "c2" -> 2 [] id = "c3" -> 3

----------------------------------------------------------------------------
(* Sequences.                                                              *)

SeqsUpTo(S, n) == UNION {[1..k -> S] : k \in 0..n}

IsDistinct(s) == \A i, j \in DOMAIN s : i # j => s[i] # s[j]

DistinctSeqsUpTo(S, n) == {s \in SeqsUpTo(S, n) : IsDistinct(s)}

Range(s) == {s[i] : i \in DOMAIN s}

RECURSIVE Concat(_)
Concat(ss) == IF ss = <<>> THEN <<>> ELSE Head(ss) \o Concat(Tail(ss))

(* How often x occurs in s. *)
Count(s, x) == Cardinality({i \in DOMAIN s : s[i] = x})

----------------------------------------------------------------------------
(* JavaScript values: undefined, and JSON trees.                           *)

undefined == [undefined |-> TRUE]
undefinedCell == <<>>
Cell(i, r, p) == <<i, r, p>>

(* A JSON node is a primitive, an array of nodes or an object, whose       *)
(* fields are kept in insertion order (the order for..in visits them).     *)
Prim(v) == [t |-> "prim", v |-> v]
Arr(elems) == [t |-> "arr", elems |-> elems]
Obj(fields) == [t |-> "obj", fields |-> fields]
Field(name, val) == [name |-> name, val |-> val]

HasField(obj, name) ==
    obj.t = "obj" /\ \E i \in DOMAIN obj.fields : obj.fields[i].name = name

(* obj[name]: the field's value, or undefined (a primitive). *)
Get(obj, name) ==
    IF HasField(obj, name)
    THEN obj.fields[CHOOSE i \in DOMAIN obj.fields : obj.fields[i].name = name].val
    ELSE Prim("undefined")

----------------------------------------------------------------------------
(* src/src/util.ts                                                         *)

RECURSIVE Insert(_, _)
Insert(x, s) ==
    IF s = <<>> THEN <<x>>
    ELSE IF Rank(x) <= Rank(Head(s)) THEN <<x>> \o s
    ELSE <<Head(s)>> \o Insert(x, Tail(s))

(* Array.prototype.sort() with the default order; the array it is called   *)
(* on is sorted in place, which the callers below account for.             *)
RECURSIVE sort(_)
sort(a) == IF a = <<>> THEN <<>> ELSE Insert(Head(a), sort(Tail(a)))

(* arraysAreEqual without its length test. *)
ArraysAreEqualNoLengthTest(a, b) ==
    [ret |-> \A index \in DOMAIN a :
                index \in DOMAIN b /\ sort(a)[index] = sort(b)[index],
     a |-> sort(a),
     b |-> IF a = <<>> THEN b ELSE sort(b)]

(* arraysAreEqual(a, b): the value returned, and the arrays a and b as the *)
(* call leaves them.  a.sort() runs once the lengths agree; b.sort() runs  *)
(* inside the every() callback, that is when a has an element.             *)
arraysAreEqual(a, b) ==
    IF Len(a) # Len(b)
    THEN [ret |-> FALSE, a |-> a, b |-> b]
    ELSE [ret |-> \A index \in DOMAIN a : sort(a)[index] = sort(b)[index],
          a |-> sort(a),
          b |-> IF a = <<>> THEN b ELSE sort(b)]

(* searchObjects(obj, key, value): the objects found, in the order found.  *)
(* An array passes both `instanceof Array` and `instanceof Object`, so its *)
(* elements are searched by the first loop and again by the for..in loop   *)
(* of the second block (an array has no property named key).               *)
RECURSIVE searchObjects(_, _, _)
searchObjects(obj, key, value) ==
    LET elemResults ==
            Concat([i \in DOMAIN obj.elems |->
                        searchObjects(obj.elems[i], key, value)])
        others == SelectSeq(obj.fields, LAMBDA f : f.name # key)
        fieldResults ==
            Concat([i \in DOMAIN others |->
                        searchObjects(others[i].val, key, value)])
    IN  CASE obj.t = "arr" -> elemResults \o elemResults
          [] obj.t = "obj" ->
                (IF Get(obj, key) = Prim(value) THEN <<obj>> ELSE <<>>)
                    \o fieldResults
          [] OTHER -> <<>>

----------------------------------------------------------------------------
(* The ChartModel of the SDK as a JSON tree: columns, data, sortInfo,      *)
(* visualProps and config.chartConfig (see the layout documented in        *)
(* src/src/TableChartModel.ts:1-12 and src/unnamed/part_004:87-118).       *)

ChartColumnJson(c) ==
    Obj(<<Field("id", Prim(c.id)), Field("name", Prim(c.name)),
          Field("dataType", Prim(c.dataType))>>)

QueryDataJson(d) ==
    Obj(<<Field("data",
            Obj(<<Field("columns",
                        Arr([p \in DOMAIN d.columns |-> Prim(d.columns[p])])),
                  Field("dataValue",
                        Arr([r \in DOMAIN d.dataValue |->
                               Arr([p \in DOMAIN d.dataValue[r] |->
                                       Prim(d.dataValue[r][p])])]))>>)),
          Field("totalRowCount", Prim(Len(d.dataValue)))>>)

DimensionJson(dim) ==
    Obj(<<Field("key", Prim(dim.key)),
          Field("columns",
                Arr([i \in DOMAIN dim.columns |-> ChartColumnJson(dim.columns[i])]))>>)

ChartConfigJson(cfg) ==
    Obj(<<Field("key", Prim(cfg.key)),
          Field("dimensions",
                Arr([i \in DOMAIN cfg.dimensions |-> DimensionJson(cfg.dimensions[i])]))>>)

ChartModelJson(cm) ==
    Obj(<<Field("columns",
                Arr([i \in DOMAIN cm.columns |-> ChartColumnJson(cm.columns[i])])),
          Field("data",
                Arr([i \in DOMAIN cm.data |-> QueryDataJson(cm.data[i])])),
          Field("sortInfo", cm.sortInfo),
          Field("visualProps", cm.visualProps),
          Field("config",
                Obj(<<Field("chartConfig",
                            Arr([i \in DOMAIN cm.chartConfig |->
                                    ChartConfigJson(cm.chartConfig[i])]))>>))>>)

----------------------------------------------------------------------------
(* src/src/TableChartModel.ts                                              *)

DataColumn(id, name, values) == [id |-> id, name |-> name, values |-> values]

(* DataDetails.hasSummary(id), over the _summaries array. *)
hasSummary(summaries, id) == \E i \in DOMAIN summaries : summaries[i].id = id

(* Array.prototype.find with an id test: the first match, or undefined. *)
FindById(columns, id) ==
    IF \E i \in DOMAIN columns : columns[i].id = id
    THEN columns[CHOOSE i \in DOMAIN columns :
                    /\ columns[i].id = id
                    /\ \A j \in 1..(i - 1) : columns[j].id # id]
    ELSE undefined

(* DataDetails.getDataById(id), over the _data array. *)
getDataById(data, id) == FindById(data, id)

(* row[colCnt]: reading past the end of a row yields undefined. *)
At(row, p) == IF p \in DOMAIN row THEN row[p] ELSE undefinedCell

(* BuildDataColumn with an off-by-one in the position read from each row. *)
BuildDataColumnOffByOne(allColumns, d, p) ==
    LET colId == d.columns[p]
        column == FindById(allColumns, colId)
        dataValues == [rowCnt \in DOMAIN d.dataValue |-> At(d.dataValue[rowCnt], p + 1)]
    IN  IF column = undefined THEN <<>>
        ELSE <<DataColumn(colId, column.name, dataValues)>>

(* BuildDataColumn storing a column also for an id that is not in          *)
(* allColumns, under the name "undefined".                                 *)
BuildDataColumnKeepingUnknown(allColumns, d, p) ==
    LET colId == d.columns[p]
        column == FindById(allColumns, colId)
        dataValues == [rowCnt \in DOMAIN d.dataValue |-> At(d.dataValue[rowCnt], p)]
    IN  <<DataColumn(colId,
                     IF column = undefined THEN "undefined" ELSE column.name,
                     dataValues)>>

(* BuildDataColumn leaving out the rows that have no value at position p. *)
BuildDataColumnSkippingMissing(allColumns, d, p) ==
    LET colId == d.columns[p]
        column == FindById(allColumns, colId)
        rows == SelectSeq(d.dataValue, LAMBDA row : p \in DOMAIN row)
        dataValues == [rowCnt \in DOMAIN rows |-> rows[rowCnt][p]]
    IN  IF column = undefined THEN <<>>
        ELSE <<DataColumn(colId, column.name, dataValues)>>

(* The body of the per-column loop of _populateDataColumns for position p  *)
(* of row-set d: the DataColumn built, or nothing when the id is not in    *)
(* allColumns (column.name throws on undefined and the catch logs it).     *)
BuildDataColumn(allColumns, d, p) ==
    LET colId == d.columns[p]
        column == FindById(allColumns, colId)
        dataValues == [rowCnt \in DOMAIN d.dataValue |-> At(d.dataValue[rowCnt], p)]
    IN  IF column = undefined THEN <<>>
        ELSE <<DataColumn(colId, column.name, dataValues)>>

(* The isSummary test without the look into the summaries stored so far. *)
IsSummaryIgnoringSummaries(summaries, d) ==
    ~ \/ Len(d.columns) > 1
      \/ Len(d.dataValue) > 1

(* The isSummary test on row-set d, given the summaries stored so far. *)
isSummary(summaries, d) ==
    ~ \/ Len(d.columns) > 1
      \/ Len(d.dataValue) > 1
      \/ (d.columns # <<>> /\ hasSummary(summaries, d.columns[1]))

(* _populateDataColumns: the DataDetails after the row-sets k.. of data    *)
(* have been processed in order, starting from details.                    *)
RECURSIVE populateDataColumns(_, _, _, _)
populateDataColumns(allColumns, data, k, details) ==
    IF k > Len(data) THEN details
    ELSE LET d == data[k]
             built == Concat([p \in DOMAIN d.columns |->
                                 BuildDataColumn(allColumns, d, p)])
             next == IF isSummary(details.summaries, d)
                     THEN [details EXCEPT !.summaries = @ \o built]
                     ELSE [details EXCEPT !.data = @ \o built]
         IN  populateDataColumns(allColumns, data, k + 1, next)

(* One loop of _setColumnAxes over the dimensions found: the ids pushed,   *)
(* or a TypeError when a found object has no iterable `columns`.           *)
AxisThrows(found) ==
    \E i \in DOMAIN found : Get(found[i], "columns").t # "arr"

AxisIds(found) ==
    Concat([i \in DOMAIN found |->
               LET cols == Get(found[i], "columns").elems
               IN  [j \in DOMAIN cols |-> Get(cols[j], "id").v]])

(* new TableChartModel(chartModel): the object built, or threw. *)
NoObject ==
    [status |-> "none", allColumns |-> <<>>, summaries |-> <<>>,
     data |-> <<>>, xColumns |-> <<>>, yColumns |-> <<>>]

TableChartModel(cm) ==
    LET allColumns == cm.columns
        details == populateDataColumns(allColumns, cm.data, 1,
                                       [summaries |-> <<>>, data |-> <<>>])
        json == ChartModelJson(cm)
        xFound == searchObjects(json, "key", "x")
        yFound == searchObjects(json, "key", "y")
    IN  IF AxisThrows(xFound) \/ AxisThrows(yFound)
        THEN [NoObject EXCEPT !.status = "threw"]
        ELSE [status |-> "built", allColumns |-> allColumns,
              summaries |-> details.summaries, data |-> details.data,
              xColumns |-> AxisIds(xFound), yColumns |-> AxisIds(yFound)]

(* getYData() / getXData(): one entry per bound id, undefined included. *)
getYData(m) == [i \in DOMAIN m.yColumns |-> getDataById(m.data, m.yColumns[i])]
getXData(m) == [i \in DOMAIN m.xColumns |-> getDataById(m.data, m.xColumns[i])]

(* getXColumnNames() / getYColumnNames(): the id arrays themselves. *)
getXColumnNames(m) == m.xColumns
getYColumnNames(m) == m.yColumns

(* DataDetails.getDataByName(name), over the _data array. *)
RECURSIVE getDataByName(_, _)
getDataByName(data, name) ==
    IF data = <<>> THEN undefined
    ELSE IF Head(data).name = name THEN Head(data)
    ELSE getDataByName(Tail(data), name)

----------------------------------------------------------------------------
(* The chart models the host may send.                                     *)

(* The catalog: columns with pairwise different ids. *)
ChartColumn(id, name, dataType) == [id |-> id, name |-> name, dataType |-> dataType]

NameOf(id) == IF id = "c1" THEN "Qty" ELSE "Amt"

Catalogs ==
    {[i \in DOMAIN ids |-> ChartColumn(ids[i], NameOf(ids[i]), "INT32")] :
        ids \in DistinctSeqsUpTo(ColumnIds, MaxColumns)}

(* A row-set: its column ids, and rows each of a width of its own (the     *)
(* host is not trusted to align them); row-set i holds Cell(i, r, p) at    *)
(* row r, position p.                                                      *)
RowSetShapes ==
    [columns : SeqsUpTo(ColumnIds, MaxWidth),
     widths : SeqsUpTo(1..MaxWidth, MaxRows)]

QueryData(i, shape) ==
    [columns |-> shape.columns,
     dataValue |-> [r \in DOMAIN shape.widths |->
                       [p \in 1..shape.widths[r] |-> Cell(i, r, p)]]]

DataOf(shapes) == [i \in DOMAIN shapes |-> QueryData(i, shapes[i])]

(* A column reference inside a dimension of the chart configuration. *)
ColumnRef(id) == ChartColumn(id, NameOf(id), "INT32")

Dimension(key, ids) ==
    [key |-> key, columns |-> [i \in DOMAIN ids |-> ColumnRef(ids[i])]]

PlainVisualProps == Obj(<<Field("color", Prim("green"))>>)
NoSortInfo == Arr(<<>>)

Idle == [op |-> "none"]

(* The two renderChart invocations: the one init() makes and one the host  *)
(* makes through the registered callback.  Of each: where it stands, the   *)
(* chart model and table model of its _renderChart call, the events it     *)
(* emitted and the chart it drew.                                          *)
Invocations == {"init", "host"}

NoChart == [drawn |-> FALSE]

NoRender ==
    [pc |-> "idle", chartModel |-> undefined, tableModel |-> undefined,
     emitted |-> <<>>, chart |-> NoChart]

NoRenders == [i \in Invocations |-> NoRender]

NoOld == [status |-> "none", columns |-> <<>>, data |-> <<>>, queryData |-> 0]

----------------------------------------------------------------------------
(* Spec: one TableChartModel is built from a chart model and then read.    *)

Init ==
    /\ \E columns \in Catalogs,
          shapes \in SeqsUpTo(RowSetShapes, MaxRowSets),
          ys \in DistinctSeqsUpTo(ColumnIds, MaxBound) :
            chartModel =
                [columns |-> columns,
                 data |-> DataOf(shapes),
                 chartConfig |->
                    <<[key |-> "column",
                       dimensions |-> <<Dimension("x", <<>>), Dimension("y", ys)>>]>>,
                 visualProps |-> PlainVisualProps,
                 sortInfo |-> NoSortInfo]
    /\ hostModel = chartModel
    /\ tcm = NoObject
    /\ old = NoOld
    /\ ret = Idle
    /\ renders = NoRenders

(* const tableModel = new TableChartModel(chartModel) *)
Construct ==
    /\ tcm.status = "none"
    /\ tcm' = TableChartModel(chartModel)
    /\ UNCHANGED <<chartModel, hostModel, old, ret, renders>>

(* tableModel.getYData() *)
GetYData ==
    /\ tcm.status = "built"
    /\ ret' = [op |-> "getYData", value |-> getYData(tcm)]
    /\ UNCHANGED <<chartModel, hostModel, tcm, old, renders>>

Next == Construct \/ GetYData

Spec == Init /\ [][Next]_vars

----------------------------------------------------------------------------
(* Notions the properties are stated in, taken from the chart model as the *)
(* host sent it.                                                           *)

Catalogued(cm, id) == \E i \in DOMAIN cm.columns : cm.columns[i].id = id

CatalogName(cm, id) ==
    cm.columns[CHOOSE i \in DOMAIN cm.columns : cm.columns[i].id = id].name

Carries(d, id) == \E p \in DOMAIN d.columns : d.columns[p] = id

FirstPosition(d, id) ==
    CHOOSE p \in DOMAIN d.columns :
        d.columns[p] = id /\ \A q \in 1..(p - 1) : d.columns[q] # id

(* Position p of every row of row-set d, in row order. *)
ReadPosition(d, p) ==
    [r \in 1..Len(d.dataValue) |->
        IF p <= Len(d.dataValue[r]) THEN d.dataValue[r][p] ELSE undefinedCell]

(* Some row of d has more or fewer values than d has column ids. *)
Malformed(d) == \E r \in DOMAIN d.dataValue : Len(d.dataValue[r]) # Len(d.columns)

(* The ids the chart configuration binds to an axis: the columns of the    *)
(* dimensions with that key, in configuration order.                       *)
BoundIds(cm, axis) ==
    Concat([g \in DOMAIN cm.chartConfig |->
        Concat([k \in DOMAIN cm.chartConfig[g].dimensions |->
            LET dim == cm.chartConfig[g].dimensions[k]
            IN  IF dim.key = axis
                THEN [j \in DOMAIN dim.columns |-> dim.columns[j].id]
                ELSE <<>>])])

(* A single value: one column and at most one row. *)
SingleValue(d) == Len(d.columns) = 1 /\ Len(d.dataValue) <= 1

(* The summary rule in closed form: row-set i is kept as data unless it is *)
(* the first single value of its (catalogued) column.                      *)
KeptAsData(cm, i) ==
    \/ ~SingleValue(cm.data[i])
    \/ \E j \in 1..(i - 1) :
          /\ SingleValue(cm.data[j])
          /\ cm.data[j].columns = cm.data[i].columns
          /\ Catalogued(cm, cm.data[i].columns[1])

DataSources(cm, id) ==
    {i \in DOMAIN cm.data : KeptAsData(cm, i) /\ Carries(cm.data[i], id)}

FirstDataSource(cm, id) ==
    CHOOSE i \in DataSources(cm, id) : \A j \in DataSources(cm, id) : i <= j

YRead == tcm.status = "built" /\ ret.op = "getYData"

Constructed == tcm.status # "none"

----------------------------------------------------------------------------
----------------------------------------------------------------------------
(* C3 as stated: when every bound Y column has data, getYData() is exactly *)
(* one entry per bound column, in binding order, with the column's id,     *)
(* catalog name and values.                                                *)
C3_OneEntryPerBoundColumn ==
    LET ys == BoundIds(hostModel, "y")
    IN  (/\ YRead
         /\ \A i \in DOMAIN ys :
               Catalogued(hostModel, ys[i]) /\ DataSources(hostModel, ys[i]) # {})
        => /\ Len(ret.value) = Len(ys)
           /\ \A i \in DOMAIN ys :
                LET d == hostModel.data[FirstDataSource(hostModel, ys[i])]
                IN  i \in DOMAIN ret.value =>
                        ret.value[i] = DataColumn(ys[i], CatalogName(hostModel, ys[i]),
                                                  ReadPosition(d, FirstPosition(d, ys[i])))

----------------------------------------------------------------------------
(* C6 as stated: a malformed row-set is rejected, so no column read from   *)
(* it, padded or truncated, is stored in the model built.                  *)
C6_MalformedRejected ==
    tcm.status = "built" =>
        \A i \in DOMAIN hostModel.data :
            LET d == hostModel.data[i]
            IN  Malformed(d) =>
                    \A p \in DOMAIN d.columns :
                        \A k \in DOMAIN (tcm.data \o tcm.summaries) :
                            (tcm.data \o tcm.summaries)[k].values # ReadPosition(d, p)

----------------------------------------------------------------------------
(* C11 as stated: a bound Y column that is not in the catalog, or has no   *)
(* extracted data, leaves no undefined entry in what getYData() returns.   *)
C11_NoUndefinedEntry ==
    YRead =>
        \A k \in DOMAIN ret.value :
            LET id == tcm.yColumns[k]
            IN  (~Catalogued(hostModel, id) \/ DataSources(hostModel, id) = {})
                    => ret.value[k] # undefined

----------------------------------------------------------------------------
(* C13 as stated: from a chart model without columns the constructor does  *)
(* not yield a constructed, readable model.                                *)
C13_NoColumnsFails ==
    (Constructed /\ hostModel.columns = <<>>) => tcm.status # "built"

----------------------------------------------------------------------------
(* C14: every column stored in a constructed model, as data or as summary, *)
(* was read from one row-set that carries its id, and its value array has  *)
(* as many entries as that row-set has rows; so the columns extracted from *)
(* the same row-set all have that row-set's number of rows as length.      *)
C14_EqualLengths ==
    tcm.status = "built" =>
        LET stored == tcm.data \o tcm.summaries
        IN  \A k \in DOMAIN stored :
                \E i \in DOMAIN hostModel.data :
                    /\ Carries(hostModel.data[i], stored[k].id)
                    /\ Len(stored[k].values) = Len(hostModel.data[i].dataValue)
                    /\ \A r \in DOMAIN stored[k].values :
                          \/ stored[k].values[r] = undefinedCell
                          \/ stored[k].values[r][1] = i

(* C14's case: a row-set of two columns whose second row is short; both    *)
(* columns are stored with two values, the missing one read as undefined.  *)
C14_Witness ==
    /\ tcm.status = "built"
    /\ Len(hostModel.data) = 1
    /\ hostModel.data[1].columns = <<"c1", "c2">>
    /\ Len(hostModel.data[1].dataValue) = 2
    /\ Len(hostModel.data[1].dataValue[2]) = 1
    /\ Len(tcm.data) = 2
    /\ tcm.data[1].values = <<Cell(1, 1, 1), Cell(1, 2, 1)>>
    /\ tcm.data[2].values = <<Cell(1, 1, 2), undefinedCell>>

----------------------------------------------------------------------------
(* The columns the constructor is to read from row-set i of cm: of every   *)
(* position whose id is in the catalog, in position order, the id, its     *)
(* catalog name and that position of every row.                            *)
Extracted(cm, i) ==
    LET d == cm.data[i]
    IN  Concat([p \in DOMAIN d.columns |->
                   IF Catalogued(cm, d.columns[p])
                   THEN <<DataColumn(d.columns[p], CatalogName(cm, d.columns[p]),
                                     ReadPosition(d, p))>>
                   ELSE <<>>])

(* C22: the summaries of a constructed model are the columns of the        *)
(* row-sets, in result order, that have one column, at most one row and a  *)
(* column id not stored as a summary before; its data are the columns of   *)
(* all other row-sets.  So a column that only comes as single values is    *)
(* found by getDataById exactly when it comes at least twice.              *)
C22_SummaryRule ==
    tcm.status = "built" =>
        /\ tcm.summaries =
              Concat([i \in DOMAIN hostModel.data |->
                         IF KeptAsData(hostModel, i) THEN <<>>
                         ELSE Extracted(hostModel, i)])
        /\ tcm.data =
              Concat([i \in DOMAIN hostModel.data |->
                         IF KeptAsData(hostModel, i) THEN Extracted(hostModel, i)
                         ELSE <<>>])
        /\ \A id \in ColumnIds :
              LET carrying == {i \in DOMAIN hostModel.data :
                                  Carries(hostModel.data[i], id)}
              IN  (/\ Catalogued(hostModel, id)
                   /\ \A i \in carrying : SingleValue(hostModel.data[i]))
                    => ((\E k \in DOMAIN tcm.data : tcm.data[k].id = id)
                            <=> Cardinality(carrying) >= 2)

(* C22's case: c1 comes twice as a single value; the first is stored as    *)
(* summary, the second as data.                                            *)
C22_Witness ==
    /\ tcm.status = "built"
    /\ Len(hostModel.data) = 2
    /\ hostModel.data[1].columns = <<"c1">>
    /\ hostModel.data[2].columns = <<"c1">>
    /\ Len(tcm.summaries) = 1
    /\ tcm.summaries[1].values = <<Cell(1, 1, 1)>>
    /\ Len(tcm.data) = 1
    /\ tcm.data[1].values = <<Cell(2, 1, 1)>>

----------------------------------------------------------------------------
(* C27 as stated: xColumns and yColumns list each column id as often as    *)
(* the chart configuration binds it to the axis (every dimension object is *)
(* found once).                                                            *)
C27_EachMatchOnce ==
    tcm.status = "built" =>
        \A id \in ColumnIds :
            /\ Count(tcm.xColumns, id) = Count(BoundIds(hostModel, "x"), id)
            /\ Count(tcm.yColumns, id) = Count(BoundIds(hostModel, "y"), id)

----------------------------------------------------------------------------
(* C28: the constructor does not throw on a row-set column whose id is not *)
(* in the catalog; no column is stored for such an id, and every position  *)
(* of every row-set whose id is in the catalog is stored with its values.  *)
C28_UnknownColumnSkipped ==
    Constructed =>
        /\ tcm.status = "built"
        /\ LET stored == tcm.data \o tcm.summaries
           IN  /\ \A k \in DOMAIN stored : Catalogued(hostModel, stored[k].id)
               /\ \A i \in DOMAIN hostModel.data :
                     LET d == hostModel.data[i]
                     IN  \A p \in DOMAIN d.columns :
                            Catalogued(hostModel, d.columns[p]) =>
                                \E k \in DOMAIN stored :
                                    stored[k] =
                                        DataColumn(d.columns[p],
                                                   CatalogName(hostModel, d.columns[p]),
                                                   ReadPosition(d, p))

(* C28's case: only c2 is in the catalog; of the row-set [c1, c2] the      *)
(* second column is stored, and so is the single value of c2 that follows. *)
C28_Witness ==
    /\ tcm.status = "built"
    /\ [i \in DOMAIN hostModel.columns |-> hostModel.columns[i].id] = <<"c2">>
    /\ Len(hostModel.data) = 2
    /\ hostModel.data[1].columns = <<"c1", "c2">>
    /\ hostModel.data[2].columns = <<"c2">>
    /\ tcm.data = <<DataColumn("c2", "Amt", <<Cell(1, 1, 2), Cell(1, 2, 2)>>)>>
    /\ tcm.summaries = <<DataColumn("c2", "Amt", <<Cell(2, 1, 1)>>)>>

----------------------------------------------------------------------------
(* SpecAxes: axis resolution.  The chart configuration varies, and so do   *)
(* visualProps and sortInfo, which the SDK types as free-form JSON         *)
(* (src/src/TableChartModel.ts:126-127).                                   *)

Dimensions ==
    {Dimension(key, ids) :
        key \in {"x", "y"}, ids \in DistinctSeqsUpTo(ColumnIds, MaxBound)}

ChartConfigs ==
    [key : {"column", "default"}, dimensions : SeqsUpTo(Dimensions, MaxDimensions)]

(* visualProps: absent, the colour picked in the editor, or JSON in which  *)
(* an object has a field `key` holding "y" (with columns) or "x" (without).*)
VisualPropsChoices ==
    {Prim("undefined"),
     PlainVisualProps,
     Obj(<<Field("color", Prim("green")),
           Field("legend",
                 Obj(<<Field("key", Prim("y")),
                       Field("columns",
                             Arr(<<Obj(<<Field("id", Prim("c2"))>>)>>))>>))>>),
     Obj(<<Field("key", Prim("x")), Field("color", Prim("green"))>>)}

(* sortInfo: empty, or one entry with a field `key` holding "x". *)
SortInfoChoices ==
    {NoSortInfo,
     Arr(<<Obj(<<Field("key", Prim("x")),
                 Field("columns", Arr(<<Obj(<<Field("id", Prim("c1"))>>)>>))>>)>>)}

AxesData ==
    {<<>>,
     DataOf(<<[columns |-> <<"c1", "c2">>, widths |-> <<2, 2>>]>>)}

InitAxes ==
    /\ \E chartConfig \in SeqsUpTo(ChartConfigs, MaxConfigs),
          visualProps \in VisualPropsChoices,
          sortInfo \in SortInfoChoices,
          data \in AxesData :
            chartModel =
                [columns |-> <<ColumnRef("c1"), ColumnRef("c2")>>,
                 data |-> data,
                 chartConfig |-> chartConfig,
                 visualProps |-> visualProps,
                 sortInfo |-> sortInfo]
    /\ hostModel = chartModel
    /\ tcm = NoObject
    /\ old = NoOld
    /\ ret = Idle
    /\ renders = NoRenders

SpecAxes == InitAxes /\ [][Next]_vars

(* C9 as stated: an axis the configuration binds no column to (no group,   *)
(* no dimension of that key, or dimensions without columns) resolves to    *)
(* the empty list, and the constructor does not throw.                     *)
C9_MissingConfigTolerated ==
    Constructed =>
        /\ BoundIds(hostModel, "x") = <<>> =>
                tcm.status = "built" /\ tcm.xColumns = <<>>
        /\ BoundIds(hostModel, "y") = <<>> =>
                tcm.status = "built" /\ tcm.yColumns = <<>>

(* C10 as stated: xColumns and yColumns hold only ids that the chart       *)
(* configuration binds to that axis, whatever else in the chart model has  *)
(* a field `key` equal to "x" or "y".                                      *)
C10_OnlyConfigIsRead ==
    tcm.status = "built" =>
        /\ Range(tcm.xColumns) \subseteq Range(BoundIds(hostModel, "x"))
        /\ Range(tcm.yColumns) \subseteq Range(BoundIds(hostModel, "y"))

----------------------------------------------------------------------------
(* src/unnamed/part_004: TableChartModelOld                                *)

ColumnDescription(c) ==
    [columnName |-> c.name, columnId |-> c.id, dataType |-> c.dataType]

(* findDataValue with the loop keeping the last match instead of           *)
(* returning at the first.                                                 *)
RECURSIVE FindLastDataValue(_, _, _)
FindLastDataValue(columns, data, k) ==
    IF k > Len(data) THEN [ret |-> 0, data |-> data]
    ELSE LET ids == [i \in DOMAIN columns |-> columns[i].columnId]
             eq == arraysAreEqual(data[k].columns, ids)
             sorted == [data EXCEPT ![k].columns = eq.a]
             rest == FindLastDataValue(columns, sorted, k + 1)
         IN  IF eq.ret /\ rest.ret = 0 THEN [ret |-> k, data |-> rest.data]
             ELSE rest

(* findDataValue(columns, chartModel), from candidate k on: the index in   *)
(* chartModel.data of the QueryData returned (0 for null), and             *)
(* chartModel.data as the calls of arraysAreEqual leave it: the column     *)
(* list of every candidate compared is sorted in place.                    *)
RECURSIVE findDataValue(_, _, _)
findDataValue(columns, data, k) ==
    IF k > Len(data) THEN [ret |-> 0, data |-> data]
    ELSE LET ids == [i \in DOMAIN columns |-> columns[i].columnId]
             eq == arraysAreEqual(data[k].columns, ids)
             sorted == [data EXCEPT ![k].columns = eq.a]
         IN  IF eq.ret THEN [ret |-> k, data |-> sorted]
             ELSE findDataValue(columns, sorted, k + 1)

(* getColumnNameForId(columnId): c?.columnName. *)
getColumnNameForId(columns, columnId) ==
    IF \E i \in DOMAIN columns : columns[i].columnId = columnId
    THEN columns[CHOOSE i \in DOMAIN columns :
                    /\ columns[i].columnId = columnId
                    /\ \A j \in 1..(i - 1) : columns[j].columnId # columnId].columnName
    ELSE "undefined"

(* The loop of _populate over queryData.data.columns from index idx on:    *)
(* this._data, an object keyed by column name, modelled as a function.     *)
RECURSIVE populate(_, _, _, _)
populate(columns, queryData, idx, data) ==
    IF idx > Len(queryData.columns) THEN data
    ELSE LET cname == getColumnNameForId(columns, queryData.columns[idx])
             values == [r \in DOMAIN queryData.dataValue |->
                           At(queryData.dataValue[r], idx)]
             next == [n \in DOMAIN data \cup {cname} |->
                         IF n = cname THEN values ELSE data[n]]
         IN  populate(columns, queryData, idx + 1, next)

NoData == [n \in {} |-> <<>>]

(* new TableChartModelOld(chartModel): the object, and chartModel.data as  *)
(* the constructor leaves it.                                              *)
TableChartModelOld(cm) ==
    LET columns == [i \in DOMAIN cm.columns |-> ColumnDescription(cm.columns[i])]
        found == findDataValue(columns, cm.data, 1)
    IN  [object |->
            [status |-> "built",
             columns |-> columns,
             data |-> IF found.ret # 0
                      THEN populate(columns, found.data[found.ret], 1, NoData)
                      ELSE NoData,
             queryData |-> found.ret],
         data |-> found.data]

(* getDataForColumnName(columnName): this._data[columnName]; reading a     *)
(* missing property does not throw, it yields undefined.                   *)
getDataForColumnName(m, columnName) ==
    IF columnName \in DOMAIN m.data
    THEN [threw |-> FALSE, value |-> [values |-> m.data[columnName]]]
    ELSE [threw |-> FALSE, value |-> undefined]

(* getDataForColumnId(columnId) *)
getDataForColumnId(m, columnId) ==
    LET columnName == getColumnNameForId(m.columns, columnId)
    IN  IF columnName = "undefined"
        THEN [threw |-> TRUE, value |-> undefined]
        ELSE getDataForColumnName(m, columnName)

(* getColumnIdForName with find replaced by a search from the end. *)
RECURSIVE GetColumnIdForNameLast(_, _)
GetColumnIdForNameLast(columns, columnName) ==
    IF columns = <<>> THEN "undefined"
    ELSE IF columns[Len(columns)].columnName = columnName
    THEN columns[Len(columns)].columnId
    ELSE GetColumnIdForNameLast(SubSeq(columns, 1, Len(columns) - 1), columnName)

(* getColumnIdForName(columnName): c?.columnId of the column find returns. *)
RECURSIVE getColumnIdForName(_, _)
getColumnIdForName(columns, columnName) ==
    IF columns = <<>> THEN "undefined"
    ELSE IF Head(columns).columnName = columnName THEN Head(columns).columnId
    ELSE getColumnIdForName(Tail(columns), columnName)

(* getColumnsWithDataType(dataType): this._columns.filter(...) *)
getColumnsWithDataType(columns, dataType) ==
    SelectSeq(columns, LAMBDA c : c.dataType = dataType)

(* getColumnsWithDataTypes(dataTypes): the filter results of the types,    *)
(* pushed one type after the other.                                        *)
getColumnsWithDataTypes(columns, dataTypes) ==
    Concat([i \in DOMAIN dataTypes |->
               getColumnsWithDataType(columns, dataTypes[i])])

----------------------------------------------------------------------------
(* SpecOld: one TableChartModelOld is built from a chart model and read.   *)

NamedCatalogs ==
    {[i \in DOMAIN ids |-> ChartColumn(ids[i], names[i], "INT32")] :
        ids \in DistinctSeqsUpTo(ColumnIds, MaxColumns),
        names \in [1..MaxColumns -> ColumnNames]}

InitOld ==
    /\ \E columns \in NamedCatalogs,
          shapes \in SeqsUpTo(RowSetShapes, MaxRowSets) :
            chartModel =
                [columns |-> columns,
                 data |-> DataOf(shapes),
                 chartConfig |-> <<>>,
                 visualProps |-> PlainVisualProps,
                 sortInfo |-> NoSortInfo]
    /\ hostModel = chartModel
    /\ tcm = NoObject
    /\ old = NoOld
    /\ ret = Idle
    /\ renders = NoRenders

(* new TableChartModelOld(chartModel) *)
ConstructOld ==
    /\ old.status = "none"
    /\ LET made == TableChartModelOld(chartModel)
       IN  /\ old' = made.object
           /\ chartModel' = [chartModel EXCEPT !.data = made.data]
    /\ UNCHANGED <<hostModel, tcm, ret, renders>>

(* this.findDataValue(this._columns, chartModel), called once more *)
FindDataValue ==
    /\ old.status = "built"
    /\ LET found == findDataValue(old.columns, chartModel.data, 1)
       IN  /\ ret' = [op |-> "findDataValue", value |-> found.ret]
           /\ chartModel' = [chartModel EXCEPT !.data = found.data]
    /\ UNCHANGED <<hostModel, tcm, old, renders>>

(* tableModel.getDataForColumnId(columnId) *)
GetDataForColumnId ==
    /\ old.status = "built"
    /\ \E columnId \in ColumnIds :
          LET got == getDataForColumnId(old, columnId)
          IN  ret' = [op |-> "getDataForColumnId", columnId |-> columnId,
                      threw |-> got.threw, value |-> got.value]
    /\ UNCHANGED <<chartModel, hostModel, tcm, old, renders>>

NextOld == ConstructOld \/ FindDataValue \/ GetDataForColumnId

SpecOld == InitOld /\ [][NextOld]_vars

----------------------------------------------------------------------------
(* Row-set selection.  R is the list of catalog ids findDataValue asks     *)
(* for, C the candidates as the host sent them.                            *)

RequestedIds == [i \in DOMAIN hostModel.columns |-> hostModel.columns[i].id]

Candidates == hostModel.data

(* The two lists name the same set of ids. *)
SameSet(a, b) == Range(a) = Range(b)

(* The two lists are permutations of each other: every id occurs as often  *)
(* in one as in the other.                                                 *)
SamePermutation(a, b) ==
    /\ Len(a) = Len(b)
    /\ \A x \in Range(a) \cup Range(b) : Count(a, x) = Count(b, x)

(* The results of the calls made so far: the constructor's, and the last   *)
(* repeated call's if there was one.                                       *)
SelectionResults ==
    IF old.status # "built" THEN {}
    ELSE {old.queryData} \cup
         (IF ret.op = "findDataValue" THEN {ret.value} ELSE {})

(* C1 as stated: the result is a candidate whose column ids, as a set,     *)
(* equal R, and it is null exactly when no candidate has that set.         *)
C1_SelectsBySet ==
    \A res \in SelectionResults :
        /\ res # 0 =>
              res \in DOMAIN Candidates /\ SameSet(Candidates[res].columns, RequestedIds)
        /\ res = 0 <=>
              ~ \E i \in DOMAIN Candidates : SameSet(Candidates[i].columns, RequestedIds)

(* C1 amended: the result is a candidate whose column-id list is a         *)
(* permutation of R (same length, same ids with the same multiplicities),  *)
(* and it is null exactly when no candidate is such a permutation.         *)
C1_SelectsByPermutation ==
    \A res \in SelectionResults :
        /\ res # 0 =>
              /\ res \in DOMAIN Candidates
              /\ SamePermutation(Candidates[res].columns, RequestedIds)
        /\ res = 0 <=>
              ~ \E i \in DOMAIN Candidates :
                    SamePermutation(Candidates[i].columns, RequestedIds)

(* C1's case: the second candidate is selected, its ids being R in another *)
(* order, after a first candidate with the same length was passed over.    *)
C1_Witness ==
    /\ old.status = "built"
    /\ old.queryData = 2
    /\ RequestedIds = <<"c1", "c2">>
    /\ Candidates[1].columns = <<"c2", "c2">>
    /\ Candidates[2].columns = <<"c2", "c1">>

(* C8 as stated: among the candidates whose column-id set is R's, the      *)
(* first in result order is returned, by the first call and by every       *)
(* repeated one.                                                           *)
C8_FirstOfEqualSets ==
    LET ties == {i \in DOMAIN Candidates :
                    SameSet(Candidates[i].columns, RequestedIds)}
    IN  Cardinality(ties) > 1 =>
            \A res \in SelectionResults :
                /\ res \in ties
                /\ \A i \in ties : res <= i
                /\ res = old.queryData

(* C8 amended: among the candidates whose column-id list is a permutation  *)
(* of R, the first in result order is returned, by the first call and by   *)
(* every repeated one.                                                     *)
C8_FirstOfMatches ==
    \A res \in SelectionResults :
        /\ \A i \in DOMAIN Candidates :
              SamePermutation(Candidates[i].columns, RequestedIds)
                  => res # 0 /\ res <= i
        /\ res = old.queryData

(* C8's case: two candidates tie, and the first call and a repeated call   *)
(* both returned the first.                                                *)
C8_Witness ==
    /\ old.status = "built"
    /\ ret.op = "findDataValue"
    /\ ret.value = 1
    /\ old.queryData = 1
    /\ Len(Candidates) = 2
    /\ Candidates[1].columns = <<"c2", "c1">>
    /\ Candidates[2].columns = <<"c1", "c2">>

----------------------------------------------------------------------------
(* C5 as stated, for TableChartModelOld: for the row-set extracted and     *)
(* every position p of its column-id list, the values stored for that      *)
(* column (looked up by its id) are row[p] of every row, in row order.     *)
C5_ExtractsByPosition ==
    (old.status = "built" /\ old.queryData # 0) =>
        LET d == Candidates[old.queryData]
        IN  \A p \in DOMAIN d.columns :
                getDataForColumnId(old, d.columns[p]).value
                    = [values |-> ReadPosition(d, p)]

(* C7 as stated: when no row-set was matched, looking up a catalogued      *)
(* column by id returns an empty sequence and does not throw.              *)
C7_EmptyDataIsEmptySequence ==
    (/\ old.status = "built"
     /\ old.queryData = 0
     /\ ret.op = "getDataForColumnId"
     /\ Catalogued(hostModel, ret.columnId))
        => ~ret.threw /\ ret.value = [values |-> <<>>]

(* C26 as stated: after the row-set selection has compared the candidates  *)
(* every candidate's column-id list is in the order the host sent it in.   *)
C26_InputsUndisturbed ==
    old.status = "built" =>
        \A i \in DOMAIN hostModel.data :
            chartModel.data[i].columns = hostModel.data[i].columns

----------------------------------------------------------------------------
(* src/src/histogram.ts: the configuration functions.                      *)

(* chartModel.columns.find(c => NumericTypes.includes(c.dataType)) *)
RECURSIVE FindNumeric(_)
FindNumeric(columns) ==
    IF columns = <<>> THEN undefined
    ELSE IF Head(columns).dataType \in NumericTypes THEN Head(columns)
    ELSE FindNumeric(Tail(columns))

(* getDefaultChartConfig with the chosen Y column left among the X columns.*)
DefaultChartConfigKeepingY(cm) ==
    IF Len(cm.columns) < 1
    THEN <<[key |-> "default", dimensions |-> <<>>]>>
    ELSE LET firstMeasure == FindNumeric(cm.columns)
         IN  <<[key |-> "default",
                dimensions |->
                    (IF firstMeasure # undefined
                     THEN <<[key |-> "y", columns |-> <<firstMeasure>>]>>
                     ELSE <<>>)
                    \o <<[key |-> "x", columns |-> cm.columns]>>]>>

(* getDefaultChartConfig taking the first column as the measure whatever   *)
(* its data type.                                                          *)
DefaultChartConfigFirstColumnY(cm) ==
    IF Len(cm.columns) < 1
    THEN <<[key |-> "default", dimensions |-> <<>>]>>
    ELSE <<[key |-> "default",
            dimensions |->
                <<[key |-> "y", columns |-> <<Head(cm.columns)>>],
                  [key |-> "x", columns |-> Tail(cm.columns)]>>]>>

(* getDefaultChartConfig(chartModel): the ChartConfig[] returned. *)
getDefaultChartConfig(cm) ==
    IF Len(cm.columns) < 1
    THEN <<[key |-> "default", dimensions |-> <<>>]>>
    ELSE LET firstMeasure == FindNumeric(cm.columns)
             yDimension == [key |-> "y", columns |-> <<firstMeasure>>]
             xDimension ==
                 [key |-> "x",
                  columns |->
                     SelectSeq(cm.columns,
                               LAMBDA c : firstMeasure = undefined
                                          \/ c.id # firstMeasure.id)]
         IN  <<[key |-> "default",
                dimensions |->
                    (IF firstMeasure # undefined THEN <<yDimension>> ELSE <<>>)
                    \o <<xDimension>>]>>

----------------------------------------------------------------------------
(* SpecConfig: the host asks for the default configuration of a column     *)
(* list.                                                                   *)

TypedCatalogs ==
    {[i \in DOMAIN ids |-> ChartColumn(ids[i], NameOf(ids[i]), types[i])] :
        ids \in DistinctSeqsUpTo(ConfigIds, MaxConfigColumns),
        types \in [1..MaxConfigColumns -> DataTypes]}

InitConfig ==
    /\ \E columns \in TypedCatalogs :
            chartModel =
                [columns |-> columns,
                 data |-> <<>>,
                 chartConfig |-> <<>>,
                 visualProps |-> PlainVisualProps,
                 sortInfo |-> NoSortInfo]
    /\ hostModel = chartModel
    /\ tcm = NoObject
    /\ old = NoOld
    /\ ret = Idle
    /\ renders = NoRenders

(* getDefaultChartConfig(chartModel), called by the host *)
GetDefaultChartConfig ==
    /\ ret.op = "none"
    /\ ret' = [op |-> "getDefaultChartConfig",
               value |-> getDefaultChartConfig(chartModel)]
    /\ UNCHANGED <<chartModel, hostModel, tcm, old, renders>>

NextConfig == GetDefaultChartConfig

SpecConfig == InitConfig /\ [][NextConfig]_vars

(* The columns of the dimensions of configuration cfg with the given key,  *)
(* one list per dimension.                                                 *)
DimensionsOf(cfg, key) ==
    SelectSeq(cfg.dimensions, LAMBDA dim : dim.key = key)

(* s without its element at position m. *)
Without(s, m) ==
    [i \in 1..(Len(s) - 1) |-> IF i < m THEN s[i] ELSE s[i + 1]]

(* C4: for a non-empty column list the default configuration is one group  *)
(* whose Y dimension holds exactly the first numeric column and whose X    *)
(* dimension holds all other columns in their original order, the Y column *)
(* not among them; with no numeric column there is no Y dimension and X    *)
(* holds every column.                                                     *)
C4_DefaultConfig ==
    (ret.op = "getDefaultChartConfig" /\ hostModel.columns # <<>>) =>
        LET columns == hostModel.columns
            numeric == {i \in DOMAIN columns : columns[i].dataType \in NumericTypes}
            cfg == ret.value[1]
            ys == DimensionsOf(cfg, "y")
            xs == DimensionsOf(cfg, "x")
        IN  /\ Len(ret.value) = 1
            /\ Len(xs) = 1
            /\ Len(ys) + Len(xs) = Len(cfg.dimensions)
            /\ IF numeric = {}
               THEN ys = <<>> /\ xs[1].columns = columns
               ELSE LET m == CHOOSE i \in numeric : \A j \in numeric : i <= j
                    IN  /\ Len(ys) = 1
                        /\ ys[1].columns = <<columns[m]>>
                        /\ xs[1].columns = Without(columns, m)
                        /\ \A k \in DOMAIN xs[1].columns :
                              xs[1].columns[k].id # columns[m].id

(* C4's case: [A:string, B:int, C:float] gives Y = [B] and X = [A, C]. *)
C4_Witness ==
    /\ ret.op = "getDefaultChartConfig"
    /\ [i \in DOMAIN hostModel.columns |-> hostModel.columns[i].dataType]
            = <<"VARCHAR", "INT32", "FLOAT">>
    /\ ret.value[1].dimensions =
            <<[key |-> "y", columns |-> <<hostModel.columns[2]>>],
              [key |-> "x", columns |-> <<hostModel.columns[1], hostModel.columns[3]>>]>>

----------------------------------------------------------------------------
(* src/src/histogram.ts: renderChart and _renderChart.                     *)

(* _renderChart drawing a chart with an empty series when no measure is    *)
(* found, instead of throwing.                                             *)
InnerRenderChartEmptySeries(cm) ==
    LET tableModel == TableChartModel(cm)
        yData == getYData(tableModel)
        measure == IF yData = <<>> THEN undefined ELSE yData[1]
    IN  IF tableModel.status = "threw"
        THEN [threw |-> TRUE, tableModel |-> undefined, chart |-> NoChart]
        ELSE IF measure = undefined
        THEN [threw |-> FALSE, tableModel |-> tableModel,
              chart |-> [drawn |-> TRUE, title |-> "", series |-> <<>>]]
        ELSE [threw |-> FALSE, tableModel |-> tableModel,
              chart |-> [drawn |-> TRUE, title |-> measure.name,
                         series |-> measure.values]]

(* _renderChart(context) on chart model cm.  It has no await, so it runs   *)
(* to its end in one piece: whether it threw (the constructor did, or no   *)
(* measure was found), the table model it built and the chart it drew.     *)
InnerRenderChart(cm) ==
    LET tableModel == TableChartModel(cm)
        yData == getYData(tableModel)
        measure == IF yData = <<>> THEN undefined ELSE yData[1]
    IN  IF tableModel.status = "threw"
        THEN [threw |-> TRUE, tableModel |-> undefined, chart |-> NoChart]
        ELSE IF measure = undefined
        THEN [threw |-> TRUE, tableModel |-> tableModel, chart |-> NoChart]
        ELSE [threw |-> FALSE, tableModel |-> tableModel,
              chart |-> [drawn |-> TRUE, title |-> measure.name,
                         series |-> measure.values]]

(* RenderBody keeping the table model in one place shared by all           *)
(* invocations instead of a local constant.                                *)
RenderBodySharedModel(i) ==
    /\ renders[i].pc = "started"
    /\ LET out == InnerRenderChart(chartModel)
       IN  renders' =
             [j \in Invocations |->
                IF j = i
                THEN [renders[i] EXCEPT
                        !.pc = IF out.threw THEN "failed" ELSE "rendered",
                        !.chartModel = chartModel,
                        !.tableModel = out.tableModel,
                        !.chart = out.chart]
                ELSE [renders[j] EXCEPT !.tableModel = out.tableModel]]
    /\ UNCHANGED <<chartModel, hostModel, tcm, old, ret>>

(* renderChart(context) is called: RenderStart is emitted and the call     *)
(* waits for the host (await context.emitEvent(RenderStart)).              *)
RenderStart(i) ==
    /\ renders[i].pc = "idle"
    /\ renders' = [renders EXCEPT ![i].pc = "started",
                                  ![i].emitted = <<"RenderStart">>]
    /\ UNCHANGED <<chartModel, hostModel, tcm, old, ret>>

(* await _renderChart(context): the body runs on the chart model           *)
(* context.getChartModel() returns now, then the call waits again.         *)
RenderBody(i) ==
    /\ renders[i].pc = "started"
    /\ LET out == InnerRenderChart(chartModel)
       IN  renders' =
             [renders EXCEPT
                ![i].pc = IF out.threw THEN "failed" ELSE "rendered",
                ![i].chartModel = chartModel,
                ![i].tableModel = out.tableModel,
                ![i].chart = out.chart]
    /\ UNCHANGED <<chartModel, hostModel, tcm, old, ret>>

(* await context.emitEvent(RenderStart) rejects: control goes to the catch *)
(* block and _renderChart is not called.  (emitted lists the calls of      *)
(* emitEvent; whether the later two are rejected changes no later call.)   *)
RenderStartRejected(i) ==
    /\ renders[i].pc = "started"
    /\ renders' = [renders EXCEPT ![i].pc = "failed"]
    /\ UNCHANGED <<chartModel, hostModel, tcm, old, ret>>

(* RenderComplete emitted at the end of the try block instead of in a      *)
(* finally block.                                                          *)
RenderCompleteOnSuccess(i) ==
    /\ renders[i].pc = "rendered"
    /\ renders' = [renders EXCEPT ![i].pc = "done",
                                  ![i].emitted = Append(@, "RenderComplete")]
    /\ UNCHANGED <<chartModel, hostModel, tcm, old, ret>>

(* catch (e): await context.emitEvent(RenderError, ...) *)
RenderError(i) ==
    /\ renders[i].pc = "failed"
    /\ renders' = [renders EXCEPT ![i].pc = "errored",
                                  ![i].emitted = Append(@, "RenderError")]
    /\ UNCHANGED <<chartModel, hostModel, tcm, old, ret>>

(* finally: await context.emitEvent(RenderComplete) *)
RenderComplete(i) ==
    /\ renders[i].pc \in {"rendered", "errored"}
    /\ renders' = [renders EXCEPT ![i].pc = "done",
                                  ![i].emitted = Append(@, "RenderComplete")]
    /\ UNCHANGED <<chartModel, hostModel, tcm, old, ret>>

----------------------------------------------------------------------------
(* SpecRender: the two invocations run, interleaved at their awaits, while *)
(* the host may replace the chart model.                                   *)

(* Chart models with the catalog [c1, c2]: no data or one row-set of two   *)
(* rows; Y bound to nothing, to c1, to c2, or to c3, not in the catalog;   *)
(* visualProps plain, or holding an object with key "x" and no columns.    *)
RenderModels ==
    {[columns |-> <<ColumnRef("c1"), ColumnRef("c2")>>,
      data |-> data,
      chartConfig |->
         <<[key |-> "column",
            dimensions |-> <<Dimension("x", <<"c2">>), Dimension("y", ys)>>]>>,
      visualProps |-> visualProps,
      sortInfo |-> NoSortInfo] :
        data \in AxesData,
        ys \in {<<>>, <<"c1">>, <<"c2">>, <<"c3">>},
        visualProps \in {PlainVisualProps,
                         Obj(<<Field("key", Prim("x")),
                               Field("color", Prim("green"))>>)}}

InitRender ==
    /\ chartModel \in RenderModels
    /\ hostModel = chartModel
    /\ tcm = NoObject
    /\ old = NoOld
    /\ ret = Idle
    /\ renders = NoRenders

(* The host replaces the chart model (the user edits the chart). *)
HostUpdate ==
    /\ \E cm \in RenderModels \ {chartModel} :
          chartModel' = cm /\ hostModel' = cm
    /\ UNCHANGED <<tcm, old, ret, renders>>

NextRender ==
    \/ \E i \in Invocations :
          \/ RenderStart(i)
          \/ RenderStartRejected(i)
          \/ RenderBody(i)
          \/ RenderError(i)
          \/ RenderComplete(i)
    \/ HostUpdate

SpecRender == InitRender /\ [][NextRender]_vars

(* The event loop resumes every invocation whose awaited promise settles,  *)
(* and the host settles every emitEvent; it need not ever replace the      *)
(* chart model or call renderChart.                                        *)
SpecRenderFair ==
    /\ SpecRender
    /\ \A i \in Invocations :
          /\ WF_vars(RenderStartRejected(i) \/ RenderBody(i))
          /\ WF_vars(RenderError(i))
          /\ WF_vars(RenderComplete(i))

(* The Y axis of chart model cm resolves to no data: every column the     *)
(* configuration binds to y (there may be none) is missing from the        *)
(* catalog or carried by no row-set kept as data.                          *)
NoYData(cm) ==
    \A id \in Range(BoundIds(cm, "y")) :
        ~Catalogued(cm, id) \/ DataSources(cm, id) = {}

(* C12 as stated: an invocation whose chart model resolves Y to no data    *)
(* ends having drawn a chart with an empty series, without RenderError.    *)
C12_EmptySeriesRendered ==
    \A i \in Invocations :
        LET r == renders[i]
        IN  (r.pc = "done" /\ r.chartModel # undefined /\ NoYData(r.chartModel))
                => /\ r.emitted = <<"RenderStart", "RenderComplete">>
                   /\ r.chart.drawn
                   /\ r.chart.series = <<>>

(* C17 as stated: an invocation emits RenderStart before it builds the     *)
(* model, and ends with exactly one terminal signal: RenderComplete or     *)
(* RenderError, never both.                                                *)
C17_Handshake ==
    \A i \in Invocations :
        LET r == renders[i]
        IN  /\ r.pc # "idle" => r.emitted # <<>> /\ r.emitted[1] = "RenderStart"
            /\ r.pc \in {"idle", "started"} => r.tableModel = undefined
            /\ r.pc = "done" =>
                  r.emitted \in {<<"RenderStart", "RenderComplete">>,
                                 <<"RenderStart", "RenderError">>}
            /\ ~ /\ "RenderError" \in Range(r.emitted)
                 /\ "RenderComplete" \in Range(r.emitted)

(* C18: an invocation has no table model before its _renderChart ran (or   *)
(* if it never ran) and afterwards the one built from the chart model the  *)
(* host held when it ran (none if the constructor threw); and a step that  *)
(* changes one invocation's state leaves the other invocation's state as   *)
(* it was.                                                                 *)
C18_OwnModel ==
    /\ [](\A i \in Invocations :
            LET r == renders[i]
            IN  IF r.pc \in {"idle", "started"}
                THEN r.tableModel = undefined /\ r.chartModel = undefined
                ELSE \/ r.tableModel = undefined /\ r.chartModel = undefined
                     \/ /\ r.chartModel \in RenderModels
                        /\ \/ r.tableModel = undefined
                           \/ r.tableModel = TableChartModel(r.chartModel))
    /\ [][\A i, j \in Invocations :
            (i # j /\ renders'[i] # renders[i]) =>
                /\ renders'[j] = renders[j]
                /\ (renders[i].pc = "started" /\ renders'[i].pc # "started")
                      => renders'[i].chartModel \in {hostModel, undefined}]_vars

(* C18's case: both invocations are waiting after _renderChart, each with  *)
(* the table model of a different chart model.                             *)
C18_Witness ==
    /\ renders["init"].pc = "rendered"
    /\ renders["host"].pc = "rendered"
    /\ renders["init"].chartModel # renders["host"].chartModel
    /\ renders["init"].tableModel = TableChartModel(renders["init"].chartModel)
    /\ renders["host"].tableModel = TableChartModel(renders["host"].chartModel)
    /\ renders["init"].tableModel # renders["host"].tableModel

(* C24: an invocation never emits RenderComplete twice nor anything after  *)
(* it, and every invocation made ends having emitted RenderComplete once,  *)
(* as its last event: after a drawn chart, after a _renderChart that threw *)
(* and after a rejected RenderStart.                                       *)
C24_CompleteCloses ==
    /\ [](\A i \in Invocations :
            LET e == renders[i].emitted
            IN  /\ Count(e, "RenderComplete") <= 1
                /\ "RenderComplete" \in Range(e) =>
                      e[Len(e)] = "RenderComplete" /\ renders[i].pc = "done")
    /\ \A i \in Invocations :
          (renders[i].pc # "idle") ~>
              (/\ renders[i].pc = "done"
               /\ Count(renders[i].emitted, "RenderComplete") = 1
               /\ renders[i].emitted[Len(renders[i].emitted)] = "RenderComplete")

(* C24's case: RenderStart was rejected, _renderChart never ran, and the   *)
(* invocation ended with RenderError and then RenderComplete.              *)
C24_Witness ==
    \E i \in Invocations :
        /\ renders[i].pc = "done"
        /\ renders[i].chartModel = undefined
        /\ renders[i].emitted = <<"RenderStart", "RenderError", "RenderComplete">>

(* C25: an invocation emits RenderError at most once, right after          *)
(* RenderStart and before RenderComplete; once it is past its catch block  *)
(* it has emitted RenderError exactly when no chart was drawn (RenderStart *)
(* was rejected or _renderChart threw), and always when the first entry of *)
(* getYData() was missing.                                                 *)
C25_ErrorOnceIffThrew ==
    \A i \in Invocations :
        LET r == renders[i]
            e == r.emitted
        IN  /\ Count(e, "RenderError") <= 1
            /\ "RenderError" \in Range(e) =>
                  Len(e) >= 2 /\ e[1] = "RenderStart" /\ e[2] = "RenderError"
            /\ r.pc \in {"idle", "started", "failed", "rendered"} =>
                  "RenderError" \notin Range(e)
            /\ r.pc \in {"errored", "done"} =>
                  /\ "RenderError" \in Range(e) <=> ~r.chart.drawn
                  /\ (/\ r.tableModel # undefined
                      /\ \/ getYData(r.tableModel) = <<>>
                         \/ getYData(r.tableModel)[1] = undefined)
                        => "RenderError" \in Range(e)

(* C25's case: the model was built, Y is bound to c3, which has no data,   *)
(* so the first entry of getYData() is undefined, and the invocation ended *)
(* with RenderError between RenderStart and RenderComplete.                *)
C25_Witness ==
    \E i \in Invocations :
        /\ renders[i].pc = "done"
        /\ renders[i].tableModel # undefined
        /\ renders[i].tableModel.yColumns # <<>>
        /\ getYData(renders[i].tableModel)[1] = undefined
        /\ renders[i].emitted = <<"RenderStart", "RenderError", "RenderComplete">>

----------------------------------------------------------------------------
(* SpecReads: a TableChartModelOld and a TableChartModel are built from a  *)
(* chart model and their read operations are called, in any order and any  *)
(* number of times.                                                        *)

MaxTypes == 2       \* data types passed to getColumnsWithDataTypes

ReadTypes == {"INT32", "VARCHAR"}

(* The names asked for: those in use, and one no column has. *)
LookupNames == ColumnNames \cup {"Tax"}

ReadCatalogs ==
    {[i \in DOMAIN ids |-> ChartColumn(ids[i], names[i], types[i])] :
        ids \in DistinctSeqsUpTo(ColumnIds, MaxColumns),
        names \in [1..MaxColumns -> ColumnNames],
        types \in [1..MaxColumns -> ReadTypes]}

ReadData ==
    {<<>>,
     DataOf(<<[columns |-> <<"c1", "c2">>, widths |-> <<2, 2>>]>>),
     DataOf(<<[columns |-> <<"c2", "c1">>, widths |-> <<2, 2>>]>>)}

InitReads ==
    /\ \E columns \in ReadCatalogs,
          data \in ReadData,
          ys \in {<<>>, <<"c1">>} :
            chartModel =
                [columns |-> columns,
                 data |-> data,
                 chartConfig |->
                    <<[key |-> "column",
                       dimensions |-> <<Dimension("x", <<"c2">>),
                                        Dimension("y", ys)>>]>>,
                 visualProps |-> PlainVisualProps,
                 sortInfo |-> NoSortInfo]
    /\ hostModel = chartModel
    /\ tcm = NoObject
    /\ old = NoOld
    /\ ret = Idle
    /\ renders = NoRenders

(* The outcome of a call: the operation, its argument, the value returned, *)
(* and whether the call before it was the same call (calls = 2).           *)
Called(op, arg, value) ==
    [op |-> op, arg |-> arg, value |-> value,
     calls |-> IF ret.op = op /\ ret.arg = arg THEN 2 ELSE 1]

(* CallGetDataForColumnId with a lookup that takes the values out of       *)
(* this._data.                                                             *)
CallGetDataForColumnIdConsuming ==
    /\ old.status = "built"
    /\ \E columnId \in ColumnIds :
          LET name == getColumnNameForId(old.columns, columnId)
          IN  /\ ret' = Called("getDataForColumnId", columnId,
                               getDataForColumnId(old, columnId))
              /\ old' = [old EXCEPT !.data =
                            [n \in DOMAIN old.data \ {name} |-> old.data[n]]]
    /\ UNCHANGED <<chartModel, hostModel, tcm, renders>>

(* CallGetYData with a loop that takes the ids out of this.yColumns. *)
CallGetYDataDraining ==
    /\ tcm.status = "built"
    /\ ret' = Called("getYData", <<>>, getYData(tcm))
    /\ tcm' = [tcm EXCEPT !.yColumns = <<>>]
    /\ UNCHANGED <<chartModel, hostModel, old, renders>>

(* tableModel.getColumnIdForName(columnName) *)
CallGetColumnIdForName ==
    /\ old.status = "built"
    /\ \E columnName \in LookupNames :
          ret' = Called("getColumnIdForName", columnName,
                        getColumnIdForName(old.columns, columnName))
    /\ UNCHANGED <<chartModel, hostModel, tcm, old, renders>>

(* tableModel.getColumnsWithDataTypes(dataTypes) *)
CallGetColumnsWithDataTypes ==
    /\ old.status = "built"
    /\ \E dataTypes \in SeqsUpTo(ReadTypes, MaxTypes) :
          ret' = Called("getColumnsWithDataTypes", dataTypes,
                        getColumnsWithDataTypes(old.columns, dataTypes))
    /\ UNCHANGED <<chartModel, hostModel, tcm, old, renders>>

(* tableModel.getDataForColumnId(columnId), on the TableChartModelOld *)
CallGetDataForColumnId ==
    /\ old.status = "built"
    /\ \E columnId \in ColumnIds :
          ret' = Called("getDataForColumnId", columnId,
                        getDataForColumnId(old, columnId))
    /\ UNCHANGED <<chartModel, hostModel, tcm, old, renders>>

(* tableModel._data.getDataById(id) *)
CallGetDataById ==
    /\ tcm.status = "built"
    /\ \E id \in ColumnIds :
          ret' = Called("getDataById", id, getDataById(tcm.data, id))
    /\ UNCHANGED <<chartModel, hostModel, tcm, old, renders>>

(* tableModel._data.getDataByName(name) *)
CallGetDataByName ==
    /\ tcm.status = "built"
    /\ \E name \in LookupNames :
          ret' = Called("getDataByName", name, getDataByName(tcm.data, name))
    /\ UNCHANGED <<chartModel, hostModel, tcm, old, renders>>

(* tableModel.getXColumnNames() *)
CallGetXColumnNames ==
    /\ tcm.status = "built"
    /\ ret' = Called("getXColumnNames", <<>>, getXColumnNames(tcm))
    /\ UNCHANGED <<chartModel, hostModel, tcm, old, renders>>

(* tableModel.getYColumnNames() *)
CallGetYColumnNames ==
    /\ tcm.status = "built"
    /\ ret' = Called("getYColumnNames", <<>>, getYColumnNames(tcm))
    /\ UNCHANGED <<chartModel, hostModel, tcm, old, renders>>

(* tableModel.getXData() *)
CallGetXData ==
    /\ tcm.status = "built"
    /\ ret' = Called("getXData", <<>>, getXData(tcm))
    /\ UNCHANGED <<chartModel, hostModel, tcm, old, renders>>

(* tableModel.getYData() *)
CallGetYData ==
    /\ tcm.status = "built"
    /\ ret' = Called("getYData", <<>>, getYData(tcm))
    /\ UNCHANGED <<chartModel, hostModel, tcm, old, renders>>

NextReads ==
    \/ Construct
    \/ ConstructOld
    \/ CallGetColumnIdForName
    \/ CallGetColumnsWithDataTypes
    \/ CallGetDataForColumnId
    \/ CallGetDataById
    \/ CallGetDataByName
    \/ CallGetXColumnNames
    \/ CallGetYColumnNames
    \/ CallGetXData
    \/ CallGetYData

SpecReads == InitReads /\ [][NextReads]_vars

(* The columns as registered: the catalog the host sent, in its order. *)
Registered ==
    [i \in DOMAIN hostModel.columns |-> ColumnDescription(hostModel.columns[i])]

(* C15 as stated: getColumnsWithDataTypes returns the registered columns   *)
(* whose data type is among the requested ones, each once, in registration *)
(* order.                                                                  *)
C15_FilterKeepsRegistrationOrder ==
    ret.op = "getColumnsWithDataTypes" =>
        ret.value = SelectSeq(Registered, LAMBDA c : c.dataType \in Range(ret.arg))

C19_ReadsArePure ==
    [][tcm.status = "built" =>
          /\ tcm'.allColumns = tcm.allColumns
          /\ tcm'.data = tcm.data
          /\ tcm'.summaries = tcm.summaries
          /\ tcm'.xColumns = tcm.xColumns
          /\ tcm'.yColumns = tcm.yColumns]_vars

(* C19's case: getYData() was called twice in a row on a model that holds  *)
(* data and bound Y columns, and returned data.                            *)
C19_Witness ==
    /\ tcm.status = "built"
    /\ tcm.data # <<>>
    /\ tcm.yColumns # <<>>
    /\ ret.op = "getYData"
    /\ ret.calls = 2
    /\ ret.value # <<>>
    /\ ret.value[1] # undefined

(* C20: a lookup of the values of a column id (getDataForColumnId,         *)
(* getDataById, getYData) that directly follows the same lookup returns    *)
(* what that one returned.                                                 *)
C20_IdempotentLookup ==
    [][(/\ ret.op \in {"getDataForColumnId", "getDataById", "getYData"}
        /\ ret'.op = ret.op
        /\ ret'.arg = ret.arg)
          => ret'.value = ret.value]_vars

(* C20's case: the values of c1 were looked up twice in a row in the       *)
(* TableChartModelOld, and the second lookup returned the two values.      *)
C20_Witness ==
    /\ ret.op = "getDataForColumnId"
    /\ ret.arg = "c1"
    /\ ret.calls = 2
    /\ ~ret.value.threw
    /\ ret.value.value = [values |-> <<Cell(1, 1, 1), Cell(1, 2, 1)>>]

----------------------------------------------------------------------------
(* src/src/TSChartConfig.ts and the host callbacks getValidateConfig and   *)
(* getQueriesFromChartConfig of src/src/histogram.ts.                      *)

(* An object filled by `object[item.key] = item` for the items in order:   *)
(* its values in the order Object.values lists them, which is the order in *)
(* which the keys were first set, each key holding the item set last.      *)
RECURSIVE KeyedByKey(_, _)
KeyedByKey(items, object) ==
    IF items = <<>> THEN object
    ELSE LET item == Head(items)
             next == IF \E k \in DOMAIN object : object[k].key = item.key
                     THEN [k \in DOMAIN object |->
                              IF object[k].key = item.key THEN item ELSE object[k]]
                     ELSE Append(object, item)
         IN  KeyedByKey(Tail(items), next)

(* new TSChartDimensionList(dimensions): the dimensions object. *)
TSChartDimensionList(dimensions) == KeyedByKey(dimensions, <<>>)

(* new TSChartConfigList(configs): the _chartConfigs object, each config   *)
(* wrapped with its dimension list.                                        *)
TSChartConfigList(configs) ==
    KeyedByKey([i \in DOMAIN configs |->
                   [key |-> configs[i].key,
                    dimensions |-> TSChartDimensionList(configs[i].dimensions)]],
               <<>>)

(* getConfigDimension(key) on the config list: the first dimension with    *)
(* the key, going through the configs and their dimensions in order.       *)
RECURSIVE FindDimension(_, _)
FindDimension(dimensions, key) ==
    IF dimensions = <<>> THEN undefined
    ELSE IF Head(dimensions).key = key THEN Head(dimensions)
    ELSE FindDimension(Tail(dimensions), key)

getConfigDimension(chartConfigs, key) ==
    FindDimension(Concat([i \in DOMAIN chartConfigs |-> chartConfigs[i].dimensions]),
                  key)

RequiresNumericY == "Histograms require a single, numeric Y axis value."

(* getValidateConfig without the test of the number of Y columns. *)
ValidateConfigAnyCount(updatedConfig) ==
    LET yDimension == getConfigDimension(TSChartConfigList(updatedConfig), "y")
        isOK == /\ yDimension # undefined
                /\ yDimension.columns # <<>>
                /\ yDimension.columns[1].dataType \in NumericTypes
    IN  [isValid |-> isOK,
         validationErrorMessage |->
            IF isOK THEN <<"">> ELSE <<RequiresNumericY>>]

(* getValidateConfig(updatedConfig, chartModel): the ValidationResponse.   *)
(* The chart model is only logged, and nothing in the try block throws on  *)
(* a well-typed ChartConfig[].                                             *)
getValidateConfig(updatedConfig) ==
    LET yDimension == getConfigDimension(TSChartConfigList(updatedConfig), "y")
        isOK == /\ yDimension # undefined
                /\ Len(yDimension.columns) = 1
                /\ yDimension.columns[1].dataType \in NumericTypes
    IN  [isValid |-> isOK,
         validationErrorMessage |->
            IF isOK THEN <<"">> ELSE <<RequiresNumericY>>]

(* The reduce of getQueriesFromChartConfig over the dimensions left, acc   *)
(* being the Query built so far.                                           *)
RECURSIVE ReduceDimensions(_, _)
ReduceDimensions(dimensions, acc) ==
    IF dimensions = <<>> THEN acc
    ELSE ReduceDimensions(Tail(dimensions),
            [queryColumns |-> acc.queryColumns \o Head(dimensions).columns])

(* s with every element that occurred before left out. *)
RECURSIVE Deduplicated(_)
Deduplicated(s) ==
    IF s = <<>> THEN <<>>
    ELSE LET front == Deduplicated(SubSeq(s, 1, Len(s) - 1))
         IN  IF s[Len(s)] \in Range(front) THEN front
             ELSE Append(front, s[Len(s)])

(* getQueriesFromChartConfig asking for each column once. *)
GetQueriesDeduplicating(chartConfig) ==
    [i \in DOMAIN chartConfig |->
        [queryColumns |->
            Deduplicated(ReduceDimensions(chartConfig[i].dimensions,
                                          [queryColumns |-> <<>>]).queryColumns)]]

(* getQueriesFromChartConfig(chartConfig): the Query[] returned. *)
getQueriesFromChartConfig(chartConfig) ==
    [i \in DOMAIN chartConfig |->
        ReduceDimensions(chartConfig[i].dimensions, [queryColumns |-> <<>>])]

----------------------------------------------------------------------------
(* SpecValidate: the host asks for the default configuration, validates a  *)
(* configuration and derives the queries from one.  The configuration is   *)
(* the one of the chart model, or the default one just returned.           *)

MaxValidateConfigs == 2   \* configs in the ChartConfig[] validated

(* The columns a configuration refers to: c1 is INT32, c2 VARCHAR and c3   *)
(* DOUBLE.                                                                 *)
TypeOf(id) ==
    CASE id = "c1" -> "INT32" [] id = "c2" -> "VARCHAR" [] id = "c3" -> "DOUBLE"

TypedColumn(id) == ChartColumn(id, NameOf(id), TypeOf(id))

TypedDimension(key, ids) ==
    [key |-> key, columns |-> [i \in DOMAIN ids |-> TypedColumn(ids[i])]]

ValidateDimensions ==
    {TypedDimension("y", ids) :
        ids \in {<<>>, <<"c1">>, <<"c2">>, <<"c1", "c3">>, <<"c1", "c1">>}}
    \cup {TypedDimension("x", ids) : ids \in {<<"c2">>, <<"c1", "c1">>}}

ValidateConfigs ==
    [key : {"column", "default"},
     dimensions : SeqsUpTo(ValidateDimensions, MaxDimensions)]

InitValidate ==
    /\ \/ \E columns \in TypedCatalogs :
            chartModel =
                [columns |-> columns,
                 data |-> <<>>,
                 chartConfig |-> <<>>,
                 visualProps |-> PlainVisualProps,
                 sortInfo |-> NoSortInfo]
       \/ \E chartConfig \in SeqsUpTo(ValidateConfigs, MaxValidateConfigs) :
            chartModel =
                [columns |-> <<TypedColumn("c1"), TypedColumn("c2"), TypedColumn("c3")>>,
                 data |-> <<>>,
                 chartConfig |-> chartConfig,
                 visualProps |-> PlainVisualProps,
                 sortInfo |-> NoSortInfo]
    /\ hostModel = chartModel
    /\ tcm = NoObject
    /\ old = NoOld
    /\ ret = Idle
    /\ renders = NoRenders

(* The configuration the host passes on: the default one if it has just    *)
(* asked for it, else the one of the chart model.                          *)
PassedConfig ==
    IF ret.op = "getDefaultChartConfig" THEN ret.value ELSE chartModel.chartConfig

(* getValidateConfig(updatedConfig, chartModel), called by the host *)
GetValidateConfig ==
    /\ ret.op \in {"none", "getDefaultChartConfig"}
    /\ ret' = [op |-> "getValidateConfig",
               chartConfig |-> PassedConfig,
               ofDefault |-> ret.op = "getDefaultChartConfig",
               value |-> getValidateConfig(PassedConfig)]
    /\ UNCHANGED <<chartModel, hostModel, tcm, old, renders>>

(* getQueriesFromChartConfig(chartConfig), called by the host *)
GetQueriesFromChartConfig ==
    /\ ret.op \in {"none", "getDefaultChartConfig"}
    /\ ret' = [op |-> "getQueriesFromChartConfig",
               chartConfig |-> PassedConfig,
               ofDefault |-> ret.op = "getDefaultChartConfig",
               value |-> getQueriesFromChartConfig(PassedConfig)]
    /\ UNCHANGED <<chartModel, hostModel, tcm, old, renders>>

NextValidate ==
    GetDefaultChartConfig \/ GetValidateConfig \/ GetQueriesFromChartConfig

SpecValidate == InitValidate /\ [][NextValidate]_vars

(* The dimensions with key "y" of a ChartConfig[]: config and position. *)
YDimensions(cfgs) ==
    {gk \in (DOMAIN cfgs) \X (1..MaxDimensions) :
        /\ gk[2] \in DOMAIN cfgs[gk[1]].dimensions
        /\ cfgs[gk[1]].dimensions[gk[2]].key = "y"}

(* Some dimension with key "y" has exactly one column, of numeric type. *)
SingleNumericY(cfgs) ==
    \E gk \in YDimensions(cfgs) :
        LET columns == cfgs[gk[1]].dimensions[gk[2]].columns
        IN  Len(columns) = 1 /\ columns[1].dataType \in NumericTypes

(* The validation response is the one expected of a configuration that is  *)
(* valid exactly when `valid` holds.                                       *)
Responds(response, valid) ==
    /\ response.isValid <=> valid
    /\ response.isValid => response.validationErrorMessage = <<"">>
    /\ ~response.isValid => RequiresNumericY \in Range(response.validationErrorMessage)

DistinctConfigKeys(cfgs) ==
    \A g, h \in DOMAIN cfgs : g # h => cfgs[g].key # cfgs[h].key

RECURSIVE ColumnsBefore(_, _)
ColumnsBefore(dimensions, n) ==
    IF n = 0 THEN 0
    ELSE ColumnsBefore(dimensions, n - 1) + Len(dimensions[n].columns)

(* C23: getQueriesFromChartConfig returns one query per config, in config  *)
(* order, and the query's columns are the columns of the config's          *)
(* dimensions, dimension after dimension, each column at its place: none   *)
(* dropped, moved or merged with an equal one.                             *)
C23_QueriesFollowConfig ==
    ret.op = "getQueriesFromChartConfig" =>
        /\ Len(ret.value) = Len(ret.chartConfig)
        /\ \A i \in DOMAIN ret.chartConfig :
              LET dimensions == ret.chartConfig[i].dimensions
                  queryColumns == ret.value[i].queryColumns
              IN  /\ Len(queryColumns) = ColumnsBefore(dimensions, Len(dimensions))
                  /\ \A k \in DOMAIN dimensions :
                        \A j \in DOMAIN dimensions[k].columns :
                            queryColumns[ColumnsBefore(dimensions, k - 1) + j]
                                = dimensions[k].columns[j]

(* C23's case: two configs; the second has c1 twice in x and c1, c3 in y,  *)
(* and its query has the four columns.                                     *)
C23_Witness ==
    /\ ret.op = "getQueriesFromChartConfig"
    /\ Len(ret.chartConfig) = 2
    /\ ret.chartConfig[2].dimensions =
            <<TypedDimension("x", <<"c1", "c1">>), TypedDimension("y", <<"c1", "c3">>)>>
    /\ Len(ret.value) = 2
    /\ ret.value[2].queryColumns =
            <<TypedColumn("c1"), TypedColumn("c1"), TypedColumn("c1"), TypedColumn("c3")>>

====
